---- MODULE Spec2Model ----
(***************************************************************************)
(* The Great Floor Survey (src/app.py): a Streamlit script that is re-run  *)
(* from the top on every user event.  The model keeps                      *)
(*   - st.session_state (user_info_provided, upload_complete, user_info),  *)
(*   - the values held by the widgets (three text inputs, file uploader),  *)
(*   - what the last run rendered (screen, message),                       *)
(*   - the position and locals of the "Submit Photos" handler,             *)
(*   - the two remote stores (S3 bucket, DynamoDB table).                  *)
(* Text is a sequence of one-character strings, so that strip() and the    *)
(* e-mail regular expression are computed rather than assumed.             *)
(*                                                                         *)
(* Environment assumptions, used throughout:                               *)
(*   - s3.upload_fileobj and table.put_item either succeed and store, or   *)
(*     raise and store nothing;                                            *)
(*   - uuid4 values do not collide: the n-th press of "Submit Photos" gets *)
(*     identifier and timestamp n, the file at position k the suffix k;    *)
(*   - st.rerun() and st.stop() are not caught by "except Exception".      *)
(***************************************************************************)
EXTENDS Integers, Sequences, FiniteSets

VARIABLES
    user_info_provided,  \* st.session_state["user_info_provided"]
    upload_complete,     \* st.session_state["upload_complete"]
    user_info,           \* st.session_state["user_info"]
    name,                \* text_input "Your Name"
    email,               \* text_input "Your Email"
    organisation,        \* text_input "Organisation Name"
    uploaded_files,      \* value of st.file_uploader
    screen,              \* screen rendered by the last run
    message,             \* st.error / st.warning shown by the last run
    pc,                  \* position of the Submit Photos handler
    i,                   \* index of the file the upload loop is at
    uploaded_filenames,  \* local list of the handler
    image,               \* local: the decoded (and resized) image
    s3_objects,          \* keys stored in the bucket
    table_items,         \* items stored in the DynamoDB table
    submits,             \* presses of "Submit Photos" so far
    event,               \* the user event the last run handled
    s3_calls,            \* upload_fileobj calls made by the current handler run
    put_calls            \* put_item calls made by the current handler run

vars == <<user_info_provided, upload_complete, user_info, name, email,
          organisation, uploaded_files, screen, message, pc, i,
          uploaded_filenames, image, s3_objects, table_items, submits,
          event, s3_calls, put_calls>>

session == <<user_info_provided, upload_complete, user_info>>
form == <<name, email, organisation>>
stores == <<s3_objects, table_items>>

----------------------------------------------------------------------------
(* Bounds of the model *)

\* longest text typed into the name and organisation inputs
MaxTextLen == 1
\* longest text typed into the e-mail input
MaxEmailLen == 5
\* longest batch whose files are chosen freely
MaxBatchLen == 2
\* presses of "Submit Photos" in one session
MaxSubmits == 2
\* largest height of the images of the resize specification
MaxImageHeight == 12

(* Program constants *)

\* len(uploaded_files) > 50
MAX_PHOTOS == 50
\* image.width > 1280
MAX_WIDTH == 1280

----------------------------------------------------------------------------
(* Text *)

Space == " "
Empty == <<>>

RECURSIVE LStrip(_)
LStrip(s) == IF s # Empty /\ Head(s) = Space THEN LStrip(Tail(s)) ELSE s

RECURSIVE RStrip(_)
RStrip(s) ==
    IF s # Empty /\ s[Len(s)] = Space
    THEN RStrip(SubSeq(s, 1, Len(s) - 1))
    ELSE s

\* str.strip()
Strip(s) == RStrip(LStrip(s))

\* position of the first "@" of s, 0 when it has none
FirstAt(s) ==
    IF \E p \in 1..Len(s) : s[p] = "@"
    THEN CHOOSE p \in 1..Len(s) :
             s[p] = "@" /\ \A q \in 1..(p - 1) : s[q] # "@"
    ELSE 0

\* last position of the run of non-"@" characters that follows position p
RunEnd(s, p) ==
    IF \E q \in (p + 1)..Len(s) : s[q] = "@"
    THEN (CHOOSE q \in (p + 1)..Len(s) :
              s[q] = "@" /\ \A r \in (p + 1)..(q - 1) : s[r] # "@") - 1
    ELSE Len(s)

\* re.match(r"[^@]+@[^@]+\.[^@]+", email): the pattern is matched at the
\* start of the text and need not reach its end.  [^@]+ before the "@" makes
\* the "@" the first one of the text; after it comes a run of non-"@"
\* characters holding a "." that is neither its first nor its last character.
IsValidEmail(s) ==
    LET p == FirstAt(s) IN
        /\ p >= 2
        /\ \E j \in (p + 2)..(RunEnd(s, p) - 1) : s[j] = "."

----------------------------------------------------------------------------
(* Routing and rendering *)

NoInfo == [n \in {} |-> Empty]

\* routing that forgets the upload_complete flag
RouteIgnoringComplete(provided, complete) ==
    IF ~provided THEN "form" ELSE "upload"

\* the routing at the end of the script: the screen a run shows
Route(provided, complete) ==
    IF ~provided THEN "form"
    ELSE IF complete THEN "thanks"
    ELSE "upload"

\* the limit taken one too high
TooManyOffByOne(files) == Len(files) > MAX_PHOTOS + 1

\* the upload screen refuses more than 50 files
TooMany(files) == Len(files) > MAX_PHOTOS

\* what a run that handles no button press shows besides the screen
Notice(scr, files) ==
    IF scr = "upload" /\ TooMany(files) THEN "warning_limit" ELSE "none"

IsFailure(m) == m \in {"failed_decode", "failed_storage", "failed_record"}

----------------------------------------------------------------------------
(* Files and images *)

NoImage == [width |-> 0, height |-> 0]

File(ext, decodable, w, h) ==
    [ext |-> ext, decodable |-> decodable, width |-> w, height |-> h]

\* file.name.split('.')[-1].lower() in ["jpg", "jpeg"]
IsJpeg(f) == f.ext \in {"jpg", "jpeg"}

\* int(float(image.height) * float(1280 / float(image.width))): the product
\* truncated.  For the widths and heights of this model the double-precision
\* product truncates to the same integer as the exact quotient.
HSize(w, h) == (h * MAX_WIDTH) \div w

\* the resize step: an image wider than 1280 becomes 1280 x h_size
Resized(f) ==
    IF f.width > MAX_WIDTH
    THEN [width |-> MAX_WIDTH, height |-> HSize(f.width, f.height)]
    ELSE [width |-> f.width, height |-> f.height]

\* f"{timestamp}_{uuid.uuid4().hex[:8]}.jpg"
UniqueFilename(ts, k) == <<ts, k>>

----------------------------------------------------------------------------
(* Inputs *)

TextChars == {"a", Space}
EmailChars == {"a", "@", ".", Space}

GoodEmail == <<"a", "@", "a", ".", "a">>

\* what the user fills in at once in the upload specification: a valid form,
\* then one with each of the three fields refused
FormSamples ==
    { <<<<"a">>, GoodEmail, <<"a">>>>,
      <<<<Space>>, GoodEmail, <<"a">>>>,
      <<<<"a">>, <<"a", "@", "a">>, <<"a">>>>,
      <<<<"a">>, GoodEmail, Empty>> }

\* the files a user picks from: a small photo, a wide one, a file that is no
\* image, and a file whose name does not end in jpg or jpeg
FileKinds ==
    { File("jpg", TRUE, 640, 480),
      File("jpeg", TRUE, 2000, 1001),
      File("jpg", FALSE, 0, 0),
      File("png", TRUE, 640, 480) }

\* a batch of one photo more than the upload screen takes
OversizedBatch == [k \in 1..(MAX_PHOTOS + 1) |-> File("jpg", TRUE, 640, 480)]

\* widths around the 1280 threshold and above it
ResizeWidths == {640, 1279, 1280, 1281, 1600, 2000, 2560}
ResizeHeights == (2..MaxImageHeight) \cup {1001}

----------------------------------------------------------------------------
(* Initial state: the session state set up by the first run, the form shown *)

Init ==
    /\ user_info_provided = FALSE
    /\ upload_complete = FALSE
    /\ user_info = NoInfo
    /\ name = Empty
    /\ email = Empty
    /\ organisation = Empty
    /\ uploaded_files = <<>>
    /\ screen = "form"
    /\ message = "none"
    /\ pc = "idle"
    /\ i = 0
    /\ uploaded_filenames = <<>>
    /\ image = NoImage
    /\ s3_objects = {}
    /\ table_items = {}
    /\ submits = 0
    /\ event = "load"
    /\ s3_calls = 0
    /\ put_calls = 0

\* the end of every run: route, render, st.stop()
Render ==
    /\ screen' = Route(user_info_provided', upload_complete')
    /\ message' = Notice(screen', uploaded_files')
    /\ pc' = "idle"

\* a run that does not enter the Submit Photos handler has none of its locals
NoHandler ==
    /\ i' = 0
    /\ uploaded_filenames' = <<>>
    /\ image' = NoImage
    /\ s3_calls' = 0
    /\ put_calls' = 0

----------------------------------------------------------------------------
(* The identity form *)

TypeName ==
    \E c \in TextChars :
        /\ pc = "idle" /\ screen = "form"
        /\ Len(name) < MaxTextLen
        /\ name' = Append(name, c)
        /\ event' = "type"
        /\ UNCHANGED <<session, email, organisation, uploaded_files>>
        /\ Render
        /\ NoHandler
        /\ UNCHANGED <<stores, submits>>

TypeEmail ==
    \E c \in EmailChars :
        /\ pc = "idle" /\ screen = "form"
        /\ Len(email) < MaxEmailLen
        /\ email' = Append(email, c)
        /\ event' = "type"
        /\ UNCHANGED <<session, name, organisation, uploaded_files>>
        /\ Render
        /\ NoHandler
        /\ UNCHANGED <<stores, submits>>

TypeOrganisation ==
    \E c \in TextChars :
        /\ pc = "idle" /\ screen = "form"
        /\ Len(organisation) < MaxTextLen
        /\ organisation' = Append(organisation, c)
        /\ event' = "type"
        /\ UNCHANGED <<session, name, email, uploaded_files>>
        /\ Render
        /\ NoHandler
        /\ UNCHANGED <<stores, submits>>

FillForm ==
    \E f \in FormSamples :
        /\ pc = "idle" /\ screen = "form"
        /\ name' = f[1] /\ email' = f[2] /\ organisation' = f[3]
        /\ event' = "type"
        /\ UNCHANGED <<session, uploaded_files>>
        /\ Render
        /\ NoHandler
        /\ UNCHANGED <<stores, submits>>

\* the organisation check left out
FormErrorWithoutOrganisation(n, e, o) ==
    IF Strip(n) = Empty THEN "error_name"
    ELSE IF ~IsValidEmail(Strip(e)) THEN "error_email"
    ELSE "none"

\* the if / elif chain under the Continue button
FormError(n, e, o) ==
    IF Strip(n) = Empty THEN "error_name"
    ELSE IF ~IsValidEmail(Strip(e)) THEN "error_email"
    ELSE IF Strip(o) = Empty THEN "error_organisation"
    ELSE "none"

Continue ==
    /\ pc = "idle" /\ screen = "form"
    /\ event' = "continue"
    /\ UNCHANGED <<form, uploaded_files, stores, submits>>
    /\ NoHandler
    /\ LET err == FormError(name, email, organisation) IN
         IF err # "none"
         THEN /\ UNCHANGED session
              /\ screen' = "form"
              /\ message' = err
              /\ pc' = "idle"
         ELSE /\ user_info' = [name |-> Strip(name),
                               email |-> Strip(email),
                               organisation |-> Strip(organisation)]
              /\ user_info_provided' = TRUE
              /\ UNCHANGED upload_complete
              /\ Render

----------------------------------------------------------------------------
(* The upload screen *)

\* the user adds a file to the file uploader
AddFile ==
    \E f \in FileKinds :
        /\ pc = "idle" /\ screen = "upload"
        /\ Len(uploaded_files) < MaxBatchLen
        /\ uploaded_files' = Append(uploaded_files, f)
        /\ event' = "select"
        /\ UNCHANGED <<session, form>>
        /\ Render
        /\ NoHandler
        /\ UNCHANGED <<stores, submits>>

\* the user drops 51 photos on the empty file uploader
AddTooMany ==
    /\ pc = "idle" /\ screen = "upload"
    /\ uploaded_files = <<>>
    /\ uploaded_files' = OversizedBatch
    /\ event' = "select"
    /\ UNCHANGED <<session, form>>
    /\ Render
    /\ NoHandler
    /\ UNCHANGED <<stores, submits>>

\* the user removes the files from the file uploader
ClearFiles ==
    /\ pc = "idle" /\ screen = "upload"
    /\ uploaded_files # <<>>
    /\ uploaded_files' = <<>>
    /\ event' = "select"
    /\ UNCHANGED <<session, form>>
    /\ Render
    /\ NoHandler
    /\ UNCHANGED <<stores, submits>>

\* any other event that makes Streamlit run the script again
Rerun ==
    /\ pc = "idle"
    /\ event' = "rerun"
    /\ UNCHANGED <<session, form, uploaded_files>>
    /\ Render
    /\ NoHandler
    /\ UNCHANGED <<stores, submits>>

\* the "Submit Photos" button: shown on the upload screen when there are
\* files and no more than 50 of them.  The press starts the handler: the
\* identifier and the timestamp of the batch are taken, the list is empty.
SubmitPhotos ==
    /\ pc = "idle" /\ screen = "upload"
    /\ uploaded_files # <<>>
    /\ ~TooMany(uploaded_files)
    /\ submits < MaxSubmits
    /\ submits' = submits + 1
    /\ event' = "submit"
    /\ pc' = "loop"
    /\ i' = 1
    /\ uploaded_filenames' = <<>>
    /\ image' = NoImage
    /\ s3_calls' = 0
    /\ put_calls' = 0
    /\ message' = "none"
    /\ UNCHANGED <<session, form, uploaded_files, screen, stores>>

\* an except clause that goes on to the thank-you screen
FailMarksComplete(kind) ==
    /\ message' = kind
    /\ screen' = "thanks"
    /\ pc' = "idle"
    /\ upload_complete' = TRUE
    /\ UNCHANGED <<user_info_provided, user_info>>

\* an except clause that starts the loop again
FailRetries(kind) ==
    /\ message' = kind
    /\ screen' = "upload"
    /\ pc' = "loop"
    /\ UNCHANGED session

\* except Exception as e: st.error(f"Upload failed: {e}"), then st.stop()
Fail(kind) ==
    /\ message' = kind
    /\ screen' = "upload"
    /\ pc' = "idle"
    /\ UNCHANGED session

\* one pass of "for file in uploaded_files" up to the upload call: the
\* extension re-check, the name, Image.open and the resize; past the last
\* file the loop is left for the put_item call
LoopStep ==
    /\ pc = "loop"
    /\ UNCHANGED <<form, uploaded_files, stores, submits, event, s3_calls,
                   put_calls>>
    /\ IF i > Len(uploaded_files)
       THEN /\ pc' = "record"
            /\ UNCHANGED <<session, screen, message, i, uploaded_filenames,
                           image>>
       ELSE LET file == uploaded_files[i] IN
            IF ~IsJpeg(file)
            THEN /\ i' = i + 1
                 /\ UNCHANGED <<session, screen, message, pc,
                                uploaded_filenames, image>>
            ELSE /\ uploaded_filenames' =
                        Append(uploaded_filenames, UniqueFilename(submits, i))
                 /\ IF file.decodable
                    THEN /\ image' = Resized(file)
                         /\ pc' = "upload"
                         /\ UNCHANGED <<session, screen, message, i>>
                    ELSE /\ Fail("failed_decode")
                         /\ UNCHANGED <<i, image>>

\* an upload whose error is swallowed: the loop goes on to the next file
UploadStepSwallowsError ==
    /\ pc = "upload"
    /\ s3_calls' = s3_calls + 1
    /\ UNCHANGED <<form, uploaded_files, table_items, submits, event,
                   put_calls, uploaded_filenames, image>>
    /\ i' = i + 1
    /\ pc' = "loop"
    /\ UNCHANGED <<session, screen, message>>
    /\ \/ s3_objects' =
              s3_objects \cup {uploaded_filenames[Len(uploaded_filenames)]}
       \/ UNCHANGED s3_objects

\* s3.upload_fileobj(buffer, Bucket, Key=unique_filename): the object is
\* stored, or the call raises and the except clause is entered
UploadStep ==
    /\ pc = "upload"
    /\ s3_calls' = s3_calls + 1
    /\ UNCHANGED <<form, uploaded_files, table_items, submits, event,
                   put_calls, uploaded_filenames, image>>
    /\ \/ /\ s3_objects' =
                s3_objects \cup {uploaded_filenames[Len(uploaded_filenames)]}
          /\ i' = i + 1
          /\ pc' = "loop"
          /\ UNCHANGED <<session, screen, message>>
       \/ /\ Fail("failed_storage")
          /\ UNCHANGED <<s3_objects, i>>

\* the item of the batch
Item ==
    [id |-> submits,
     name |-> user_info.name,
     email |-> user_info.email,
     organisation |-> user_info.organisation,
     timestamp |-> submits,
     num_photos |-> Len(uploaded_filenames),
     photo_names |-> uploaded_filenames]

\* table.put_item(Item=...), then upload_complete and st.rerun(): the next
\* run starts at once
RecordStep ==
    /\ pc = "record"
    /\ UNCHANGED <<form, uploaded_files, s3_objects, submits, event>>
    /\ \/ /\ table_items' = table_items \cup {Item}
          /\ upload_complete' = TRUE
          /\ UNCHANGED <<user_info_provided, user_info>>
          /\ Render
          /\ NoHandler
       \/ /\ Fail("failed_record")
          /\ put_calls' = put_calls + 1
          /\ UNCHANGED <<table_items, s3_calls, uploaded_filenames, image, i>>

----------------------------------------------------------------------------
(* Specifications *)

\* the whole session, the form filled in at once
Next ==
    \/ FillForm
    \/ Continue
    \/ AddFile
    \/ AddTooMany
    \/ ClearFiles
    \/ Rerun
    \/ SubmitPhotos
    \/ LoopStep
    \/ UploadStep
    \/ RecordStep

Spec == Init /\ [][Next]_vars

\* the identity form, typed character by character
NextIdentity ==
    \/ TypeName
    \/ TypeEmail
    \/ TypeOrganisation
    \/ Continue

SpecIdentity == Init /\ [][NextIdentity]_vars

\* one photo of any of the sizes chosen, the identity given
InitResize ==
    /\ user_info_provided = TRUE
    /\ upload_complete = FALSE
    /\ user_info = [name |-> <<"a">>, email |-> GoodEmail,
                    organisation |-> <<"a">>]
    /\ name = <<"a">>
    /\ email = GoodEmail
    /\ organisation = <<"a">>
    /\ \E w \in ResizeWidths, h \in ResizeHeights :
           uploaded_files = <<File("jpg", TRUE, w, h)>>
    /\ screen = "upload"
    /\ message = "none"
    /\ pc = "idle"
    /\ i = 0
    /\ uploaded_filenames = <<>>
    /\ image = NoImage
    /\ s3_objects = {}
    /\ table_items = {}
    /\ submits = 0
    /\ event = "select"
    /\ s3_calls = 0
    /\ put_calls = 0

NextResize ==
    \/ SubmitPhotos
    \/ LoopStep
    \/ UploadStep
    \/ RecordStep

SpecResize == InitResize /\ [][NextResize]_vars

----------------------------------------------------------------------------
(* Properties *)

\* the keys a batch put into the bucket, the batch named by its timestamp
StoredBy(ts) == {k \in s3_objects : k[1] = ts}

\* C1: every item of the table counts the names it lists, and every name it
\* lists is the key of an object in the bucket; put_item is reached only when
\* the loop is past the last file, with every name of the list stored.
C1_RecordListsStoredObjects ==
    /\ \A r \in table_items :
           /\ r.num_photos = Len(r.photo_names)
           /\ \A k \in 1..Len(r.photo_names) : r.photo_names[k] \in s3_objects
    /\ pc = "record" =>
           /\ i = Len(uploaded_files) + 1
           /\ \A k \in 1..Len(uploaded_filenames) :
                  uploaded_filenames[k] \in s3_objects

\* a record that lists two stored photos
C1_Witness ==
    \E r \in table_items :
        /\ r.num_photos = 2
        /\ \A k \in 1..2 : r.photo_names[k] \in s3_objects

\* C2: when an exception ends the handler, the error is shown on the upload
\* screen, the table has no item of that batch, upload_complete is false, and
\* no call was made twice: at most one upload per name, at most one put_item.
C2_FailureAbandonsBatch ==
    IsFailure(message) =>
        /\ pc = "idle"
        /\ screen = "upload"
        /\ ~upload_complete
        /\ \A r \in table_items : r.id # submits
        /\ s3_calls <= Len(uploaded_filenames)
        /\ put_calls <= 1

\* a batch that failed after one of its photos was stored
C2_Witness ==
    /\ IsFailure(message)
    /\ StoredBy(submits) # {}
    /\ table_items = {}

\* C3: put_item is never called with an empty list of names, so no item of
\* the table has num_photos = 0.
C3_NoRecordWithoutAssets ==
    /\ pc = "record" => uploaded_filenames # <<>>
    /\ \A r \in table_items : r.num_photos > 0

\* C4: with more than 50 files in the uploader the warning is shown, the
\* handler does not run, and no step changes the bucket, the table, the
\* session state or the count of submitted batches.
C4_OversizedBatchRejected ==
    /\ [](Len(uploaded_files) > MAX_PHOTOS =>
              /\ pc = "idle"
              /\ screen = "upload"
              /\ message = "warning_limit"
              /\ s3_calls = 0 /\ put_calls = 0)
    /\ [][Len(uploaded_files) > MAX_PHOTOS =>
              /\ pc' = "idle"
              /\ UNCHANGED <<stores, session, submits>>]_vars

\* 51 files in the uploader, and the script run once more
C4_Witness ==
    /\ Len(uploaded_files) = MAX_PHOTOS + 1
    /\ event = "rerun"
    /\ message = "warning_limit"

\* C5: once upload_complete is set it stays set, every run shows the
\* thank-you screen, no step changes the bucket or the table, and the table
\* holds at most one item of the session.
C5_DoneIsTerminal ==
    /\ [](upload_complete => screen = "thanks" /\ pc = "idle")
    /\ [](Cardinality(table_items) <= 1)
    /\ [][upload_complete =>
              /\ upload_complete'
              /\ UNCHANGED stores]_vars

\* the thank-you screen shown again by a later run
C5_Witness ==
    /\ upload_complete
    /\ event = "rerun"
    /\ Cardinality(table_items) = 1

\* C6 as stated: a session whose batch has ended without upload_complete (the
\* batch failed) never runs the handler again.
C6_FailedIsAbsorbing ==
    [][(pc = "idle" /\ submits > 0 /\ ~upload_complete) => pc' = "idle"]_vars

\* C6 as amended: a failure leaves the session on the upload screen with the
\* same files and upload_complete false, the handler stopped; the handler
\* starts only by a press of Submit Photos.
C6_FailureReturnsToUploadScreen ==
    /\ [][IsFailure(message') =>
              /\ pc' = "idle"
              /\ screen' = "upload"
              /\ ~upload_complete'
              /\ uploaded_files' = uploaded_files]_vars
    /\ [][(pc = "idle" /\ pc' # "idle") =>
              /\ event' = "submit"
              /\ submits' = submits + 1]_vars

\* the handler running for the second batch of the session
C6_Witness ==
    /\ submits = 2
    /\ pc = "upload"

\* C7: after a decode failure every other photo of the batch is in the bucket.
C7_DecodeFailureIsolated ==
    (pc = "idle" /\ message = "failed_decode") =>
        \A j \in 1..Len(uploaded_files) :
            (IsJpeg(uploaded_files[j]) /\ uploaded_files[j].decodable)
                => UniqueFilename(submits, j) \in s3_objects

\* C8: after a storage or record failure the bucket holds no object of the
\* batch and the table no item of it.
C8_NoPartialState ==
    message \in {"failed_storage", "failed_record"} =>
        /\ StoredBy(submits) = {}
        /\ \A r \in table_items : r.id # submits

\* the accepted pattern, stated on the text: some start of it is
\* X "@" Y "." z with X and Y non-empty and no "@" in X, Y or the character z
MatchesPattern(s) ==
    \E p \in 2..Len(s), j \in 4..(Len(s) - 1) :
        /\ p + 2 <= j
        /\ s[p] = "@"
        /\ s[j] = "."
        /\ \A q \in (1..(j + 1)) \ {p} : s[q] # "@"

\* C9 as stated: Continue is accepted exactly when the trimmed name is not
\* empty and the e-mail matches, whatever the organisation.
C9_AcceptedIffNameAndEmail ==
    event = "continue" =>
        (user_info_provided <=>
            (Strip(name) # Empty /\ MatchesPattern(Strip(email))))

\* C9 as amended: Continue is accepted exactly when the trimmed name is not
\* empty, the trimmed e-mail matches and the trimmed organisation is not
\* empty; accepted, the trimmed fields are kept and the upload screen shown;
\* refused, the session state is as it was and the form is shown with an error.
C9_AcceptedIffAllThreeFields ==
    event = "continue" =>
        /\ user_info_provided <=>
               /\ Strip(name) # Empty
               /\ MatchesPattern(Strip(email))
               /\ Strip(organisation) # Empty
        /\ user_info_provided =>
               /\ screen = "upload"
               /\ user_info = [name |-> Strip(name), email |-> Strip(email),
                               organisation |-> Strip(organisation)]
        /\ ~user_info_provided =>
               /\ screen = "form"
               /\ message # "none"
               /\ user_info = NoInfo

\* Continue pressed on a form that is accepted
C9_Witness ==
    /\ event = "continue"
    /\ user_info_provided
    /\ Strip(organisation) # Empty

\* round(a / b), a tie going to the even integer
RoundDiv(a, b) ==
    LET q == a \div b
        r == a % b
    IN  IF 2 * r < b THEN q
        ELSE IF 2 * r > b THEN q + 1
        ELSE IF q % 2 = 0 THEN q ELSE q + 1

\* C10: the image handed to the upload is 1280 wide and
\* round(h * 1280 / w) high when the photo is wider than 1280, and has the
\* photo's size otherwise.
C10_RoundedHeight ==
    pc = "upload" =>
        LET f == uploaded_files[i] IN
            image = IF f.width > MAX_WIDTH
                    THEN [width |-> MAX_WIDTH,
                          height |-> RoundDiv(f.height * MAX_WIDTH, f.width)]
                    ELSE [width |-> f.width, height |-> f.height]

====
